---- MODULE Spec2Model ----
(***************************************************************************)
(* A model of zscripts/publish.py: the release pipeline that bumps the    *)
(* <Version> of the project manifests, builds, packs, pushes and commits. *)
(* One run of the script is one behaviour: Init is the command line and   *)
(* the file system the script is started on; every action is one step of  *)
(* main(), the exception handler of the __main__ block included.          *)
(***************************************************************************)
EXTENDS Integers, Sequences, FiniteSets, TLC

VARIABLES
    argv,       \* sys.argv
    slns,       \* the *.sln files of the nearest ancestor that has any
    gitDir,     \* whether <root>/.git exists
    files,      \* the discovered *.csproj files, in discovery order: their content
    files0,     \* history: the content of the manifests when the run started
    outDir,     \* the files in artifacts/nuget/_publish
    outDir0,    \* history: the files that were in it when the run started
    pc,         \* the position of the run in main()
    mode,       \* main's mode
    api_key,    \* main's api_key
    sln,        \* main's sln
    base,       \* bump_versions_in_projects' base
    newv,       \* bump_versions_in_projects' newv
    changed,    \* the changed list (manifest indexes)
    idx,        \* the position of the running for loop
    packable,   \* pack_projects' packable
    packages,   \* push_packages' nupkgs + snupkgs
    calls,      \* the external invocations so far: subprocess.run's cmd and exit status
    out,        \* the lines written to stdout and stderr so far
    error,      \* the kind of the exception that ended the run, "" when none
    exitCode    \* the exit status of the process, -1 while it runs

vars == <<argv, slns, gitDir, files, files0, outDir, outDir0, pc, mode, api_key, sln,
          base, newv, changed, idx, packable, packages, calls, out, error, exitCode>>

\* What no step of the run changes: the command line and the histories.
env == <<argv, slns, gitDir, files0, outDir0>>

-----------------------------------------------------------------------------
(* Bounds of the model *)

MaxManifests == 2
MaxExit == 2

-----------------------------------------------------------------------------
(* Constants of the program *)

NUGET_SOURCE == "https://api.nuget.org/v3/index.json"
ARTIFACTS_DIR == "artifacts/nuget/_publish"
Modes == {"major", "minor", "patch", "publish-only"}

-----------------------------------------------------------------------------
(* Strings *)

\* str.lower().strip(), on the command-line words of the model.
LowerStrip(s) ==
    CASE s = " Minor " -> "minor"
      [] s = " " -> ""
      [] OTHER -> s

\* str.strip()
Strip(s) == IF s = " " THEN "" ELSE s

\* str.upper(), on the bump kinds.
Upper(s) ==
    CASE s = "major" -> "MAJOR"
      [] s = "minor" -> "MINOR"
      [] s = "patch" -> "PATCH"
      [] OTHER -> s

-----------------------------------------------------------------------------
(* SemVer.  The text of a version, as VERSION_RE's group 2 matches it, is   *)
(* the triple it denotes and whether it is written with leading zeros       *)
(* ("01.2.4"): int() drops them and str() never writes them.                *)

SemVerParse(t) == t.v

SemVerStr(sv) == [v |-> sv, pad |-> FALSE]

BumpKinds == {"major", "minor", "patch"}

\* A bump that keeps the lower components.
MutBump(sv, kind) ==
    CASE kind = "major" -> <<sv[1] + 1, sv[2], sv[3]>>
      [] kind = "minor" -> <<sv[1], sv[2] + 1, sv[3]>>
      [] kind = "patch" -> <<sv[1], sv[2], sv[3] + 1>>

\* SemVer.bump, for the kinds it does not raise ValueError for.
Bump(sv, kind) ==
    CASE kind = "major" -> <<sv[1] + 1, 0, 0>>
      [] kind = "minor" -> <<sv[1], sv[2] + 1, 0>>
      [] kind = "patch" -> <<sv[1], sv[2], sv[3] + 1>>

\* The characters of a version text, for a line of output.
Show(t) ==
    (IF t.pad THEN "0" ELSE "") \o ToString(t.v[1]) \o "." \o ToString(t.v[2])
        \o "." \o ToString(t.v[3])

-----------------------------------------------------------------------------
(* The file system *)

\* The relative path of the i-th discovered manifest. glob's results are
\* sorted within each of PROJECT_DIRS, and PROJECT_DIRS is itself in path
\* order, so the discovery order is the order of the paths.
RelPath(i) == "Source/Analyzers/P" \o ToString(i) \o ".csproj"

\* find_csproj_files: the discovered manifests, in discovery order.
find_csproj_files == [i \in 1..Len(files) |-> i]

\* extract_versions: the texts VERSION_RE matches in a manifest.
extract_versions(f) == f.versions

\* A replacement of the first match only (re.sub with count=1).
MutReplaceFirst(f, t) ==
    <<[f EXCEPT !.versions = [k \in 1..Len(f.versions) |-> IF k = 1 THEN t ELSE f.versions[k]]],
      IF f.versions = <<>> THEN 0 ELSE 1>>

\* replace_version: every match replaced, and the number of matches.
replace_version(f, t) ==
    <<[f EXCEPT !.versions = [k \in 1..Len(f.versions) |-> t]], Len(f.versions)>>

\* sorted(projects, key=as_posix): insertion sort on the path order.
RECURSIVE SortedByPath(_)
SortedByPath(s) ==
    IF s = <<>> THEN <<>>
    ELSE LET m == CHOOSE k \in 1..Len(s) : \A j \in 1..Len(s) : s[k] <= s[j]
             rest == [j \in 1..(Len(s) - 1) |-> IF j < m THEN s[j] ELSE s[j + 1]]
         IN <<s[m]>> \o SortedByPath(rest)

\* choose_base_version: the manifests, in path order, that have a version;
\* the base is the first version of the first of them.
WithVersion(projects) ==
    SelectSeq(SortedByPath(projects), LAMBDA p : extract_versions(files[p]) # <<>>)

choose_base_version(projects) == SemVerParse(extract_versions(files[Head(WithVersion(projects))])[1])

\* is_packable_csproj
is_packable_csproj(f) ==
    IF ~f.packageId THEN FALSE
    ELSE IF f.isPackable = "false" THEN FALSE
    ELSE TRUE

\* find_solution_file: the first of the sorted *.sln of the root.
find_solution_file(S) == IF "A.sln" \in S THEN "A.sln" ELSE "B.sln"

\* The name of a file of the output directory.
PkgName(p) == "P" \o ToString(p.proj) \o "." \o p.ext

ExtRank(e) == CASE e = "nupkg" -> 1 [] e = "snupkg" -> 2 [] e = "symbols.nupkg" -> 3

\* sorted(paths): the files of a set in the order of their names.
PkgBefore(p, q) == p.proj < q.proj \/ (p.proj = q.proj /\ ExtRank(p.ext) < ExtRank(q.ext))

RECURSIVE SortedPkgs(_)
SortedPkgs(S) ==
    IF S = {} THEN <<>>
    ELSE LET m == CHOOSE p \in S : \A q \in S \ {p} : PkgBefore(p, q)
         IN <<m>> \o SortedPkgs(S \ {m})

\* Path.suffix
Suffix(p) == IF p.ext = "snupkg" THEN ".snupkg" ELSE ".nupkg"

\* A clean that only creates the directory (no rmtree).
MutCleanKeeps(dir) == dir

\* clean_publish_output_dir: the directory removed and created again.
clean_publish_output_dir(dir) == {}

\* What one successful dotnet pack may leave in the output directory.
PackOutputs == {{}, {"nupkg", "snupkg"}, {"nupkg", "symbols.nupkg"}}

-----------------------------------------------------------------------------
(* The initial states: a command line and a repository *)

ModeArgs == {"major", " Minor ", "patch", "publish-only", "bogus"}
KeyArgs == {"s3cr3t", " "}
Argvs == {<<"publish.py", "patch">>} \cup {<<"publish.py", m, k>> : m \in ModeArgs, k \in KeyArgs}
SlnSets == {{}, {"A.sln"}, {"A.sln", "B.sln"}}

\* The <Version> declarations of a manifest: none, "1.2.3", "1.2.4", and
\* "01.2.4" followed by "1.2.3".
V123 == [v |-> <<1, 2, 3>>, pad |-> FALSE]
V124 == [v |-> <<1, 2, 4>>, pad |-> FALSE]
V0124 == [v |-> <<1, 2, 4>>, pad |-> TRUE]
VersionLists == {<<>>, <<V123>>, <<V124>>, <<V0124, V123>>}
\* The <PackageId> and <IsPackable> declarations of a manifest: a package
\* identity alone, one with <IsPackable>false</IsPackable>, and none.
PackMetas == {<<TRUE, "absent">>, <<TRUE, "false">>, <<FALSE, "absent">>}
Manifest(vs, m) == [versions |-> vs, packageId |-> m[1], isPackable |-> m[2]]

\* The manifests: every list of versions in a packable manifest, and "1.2.3"
\* in a manifest of each other kind (no stage reads both the versions and
\* the package declarations).
Manifests == {Manifest(vs, <<TRUE, "absent">>) : vs \in VersionLists}
                \cup {Manifest(<<V123>>, m) : m \in PackMetas}
Repos == UNION {[1..n -> Manifests] : n \in 0..MaxManifests}
StalePkg == [proj |-> 0, ext |-> "nupkg"]
NoVersion == <<0, 0, 0>>

\* A root with several solution files is tried on the repositories of at
\* most one manifest: the solution file is read by no stage after the build.
Init ==
    /\ argv \in Argvs
    /\ slns \in SlnSets
    /\ gitDir \in BOOLEAN
    /\ files \in Repos
    /\ Cardinality(slns) > 1 => Len(files) <= 1
    /\ files0 = files
    /\ outDir \in {{}, {StalePkg}}
    /\ outDir0 = outDir
    /\ pc = "main"
    /\ mode = ""
    /\ api_key = ""
    /\ sln = ""
    /\ base = NoVersion
    /\ newv = NoVersion
    /\ changed = <<>>
    /\ idx = 0
    /\ packable = <<>>
    /\ packages = <<>>
    /\ calls = <<>>
    /\ out = <<>>
    /\ error = ""
    /\ exitCode = -1

-----------------------------------------------------------------------------
(* Exits *)

\* return n from main: raise SystemExit(n).
Return(n, o) ==
    /\ out' = o
    /\ pc' = "exit"
    /\ exitCode' = n
    /\ error' = IF n = 2 THEN "UsageError" ELSE ""

\* An exception other than CalledProcessError leaves main: the handler
\* writes the message, re-raises, and the interpreter writes the traceback
\* with the message and exits with status 1.
Raise(kind, msg, o) ==
    /\ out' = o \o << <<"Error:">> \o msg, <<"Traceback", "RuntimeError:">> \o msg >>
    /\ pc' = "exit"
    /\ exitCode' = 1
    /\ error' = kind

\* The line run() writes for a command.
Echo(cmd, redacts) ==
    <<">">> \o [k \in 1..Len(cmd) |->
                 IF cmd[k] \in redacts /\ cmd[k] # "" THEN "****" ELSE cmd[k]]

\* What the interpreter writes for an uncaught CalledProcessError: str(ex)
\* holds the command as it was run.
Traceback(cmd, rc) ==
    <<"Traceback", "subprocess.CalledProcessError:", "Command">> \o cmd
        \o <<"returned non-zero exit status", ToString(rc)>>

\* An exit with the status of the command (sys.exit(ex.returncode)).
MutExitWithStatus(rc) == rc

\* The exit status of the interpreter when an exception leaves the script.
UncaughtStatus(rc) == 1

\* A run() that does not check the exit status (check=False).
MutRunUnchecked(cmd, redacts, rc, o, nextpc) ==
    /\ calls' = Append(calls, [cmd |-> cmd, rc |-> rc])
    /\ out' = Append(o, Echo(cmd, redacts))
    /\ pc' = nextpc
    /\ UNCHANGED <<error, exitCode>>

\* run(): the command is echoed and run; a non-zero exit status raises
\* CalledProcessError, which the handler reports and re-raises.
run(cmd, redacts, rc, o, nextpc) ==
    /\ calls' = Append(calls, [cmd |-> cmd, rc |-> rc])
    /\ IF rc = 0
       THEN /\ out' = Append(o, Echo(cmd, redacts))
            /\ pc' = nextpc
            /\ UNCHANGED <<error, exitCode>>
       ELSE /\ out' = Append(o, Echo(cmd, redacts))
                        \o << <<"Command failed with exit code", ToString(rc)>>,
                              Traceback(cmd, rc) >>
            /\ pc' = "exit"
            /\ exitCode' = UncaughtStatus(rc)
            /\ error' = "ExternalToolFailure"

-----------------------------------------------------------------------------
(* main *)

\* Lines 295-317: the arguments, the repository root, the solution file.
Main ==
    /\ pc = "main"
    /\ IF Len(argv) # 3
       THEN /\ Return(2, out \o << <<"Refusing to run.">>, <<"Usage:">> >>)
            /\ UNCHANGED <<mode, api_key, sln>>
       ELSE LET m == LowerStrip(argv[2])
                k == Strip(argv[3])
                first == find_solution_file(slns)
                warn == IF Cardinality(slns) > 1
                        THEN << <<"Warning: multiple .sln files found. Using:", first>> >>
                        ELSE <<>>
            IN  IF m \notin Modes
                THEN /\ Return(2, out \o << <<"Refusing to run.">>,
                                            <<"First argument must be one of: major, minor, patch, publish-only">> >>)
                     /\ UNCHANGED <<mode, api_key, sln>>
                ELSE IF k = ""
                THEN /\ Return(2, Append(out, <<"Refusing to run: api_key is empty.">>))
                     /\ mode' = m
                     /\ api_key' = k
                     /\ UNCHANGED sln
                ELSE IF slns = {}
                THEN /\ Raise("RootNotFound", <<"Could not find repo root">>, out)
                     /\ mode' = m
                     /\ api_key' = k
                     /\ UNCHANGED sln
                ELSE /\ mode' = m
                     /\ api_key' = k
                     /\ sln' = first
                     /\ out' = out \o warn \o << <<"Repo root:", "root">>, <<"Solution:", first>>,
                                                 <<"Mode:", m>> >>
                     /\ pc' = "stage1"
                     /\ UNCHANGED <<error, exitCode>>
    /\ UNCHANGED <<env, files, outDir, base, newv, changed, idx, packable, packages, calls>>

\* Lines 325-326: publish-only leaves the versions alone.
SkipBump ==
    /\ pc = "stage1"
    /\ mode = "publish-only"
    /\ out' = Append(out, <<"publish-only: leaving versions unchanged; no git operations will be performed.">>)
    /\ pc' = "build"
    /\ UNCHANGED <<env, files, outDir, mode, api_key, sln, base, newv, changed, idx,
                   packable, packages, calls, error, exitCode>>

\* Lines 172-183: the manifests are found, the base version chosen and bumped.
BumpBegin ==
    /\ pc = "stage1"
    /\ mode # "publish-only"
    /\ LET csprojs == find_csproj_files
       IN  IF csprojs = <<>>
           THEN /\ Raise("NoProjects", <<"No .csproj files found">>, out)
                /\ UNCHANGED <<base, newv, idx>>
           ELSE IF WithVersion(csprojs) = <<>>
           THEN /\ Raise("NoVersionFound", <<"No <Version>x.y.z</Version> found in any targeted .csproj files.">>, out)
                /\ UNCHANGED <<base, newv, idx>>
           ELSE IF mode \notin BumpKinds
           THEN /\ Raise("ValueError", <<"Bump kind must be one of: major, minor, patch">>, out)
                /\ UNCHANGED <<base, newv, idx>>
           ELSE LET b == choose_base_version(csprojs)
                    n == Bump(b, mode)
                IN  /\ base' = b
                    /\ newv' = n
                    /\ idx' = 1
                    /\ out' = Append(out, <<"Version bump:", Show(SemVerStr(b)), "->", Show(SemVerStr(n))>>)
                    /\ pc' = "bump"
                    /\ UNCHANGED <<error, exitCode>>
    /\ changed' = <<>>
    /\ UNCHANGED <<env, files, outDir, mode, api_key, sln, packable, packages, calls>>

\* A loop that skips a manifest with no <Version> (continue, not raise).
MutSkipsMissing(f, t) ==
    IF extract_versions(f) = <<>> THEN "unchanged"
    ELSE IF replace_version(f, t)[2] <= 0 THEN "failed"
    ELSE IF replace_version(f, t)[1] # f THEN "updated"
    ELSE "unchanged"

\* A loop that takes the equal text for the changed one (== for !=).
MutInvertedCompare(f, t) ==
    IF extract_versions(f) = <<>> THEN "missing"
    ELSE IF replace_version(f, t)[2] <= 0 THEN "failed"
    ELSE IF replace_version(f, t)[1] = f THEN "updated"
    ELSE "unchanged"

\* Lines 185-199: what the rewrite loop does with one manifest.
BumpOutcome(f, t) ==
    IF extract_versions(f) = <<>> THEN "missing"
    ELSE IF replace_version(f, t)[2] <= 0 THEN "failed"
    ELSE IF replace_version(f, t)[1] # f THEN "updated"
    ELSE "unchanged"

\* Lines 184-199: one manifest of the rewrite loop.
BumpFile ==
    /\ pc = "bump"
    /\ idx <= Len(files)
    /\ LET old == files[idx]
           r == replace_version(old, SemVerStr(newv))
           what == BumpOutcome(old, SemVerStr(newv))
       IN  IF what = "missing"
           THEN /\ Raise("MissingVersion", <<"Missing <Version> in:", RelPath(idx)>>, out)
                /\ UNCHANGED <<files, changed, idx>>
           ELSE IF what = "failed"
           THEN /\ Raise("RewriteFailed", <<"Failed to replace <Version> in:", RelPath(idx)>>, out)
                /\ UNCHANGED <<files, changed, idx>>
           ELSE /\ IF what = "updated"
                   THEN /\ files' = [files EXCEPT ![idx] = r[1]]
                        /\ changed' = Append(changed, idx)
                        /\ out' = Append(out, <<"Updated:", RelPath(idx), "replacements:", ToString(r[2])>>)
                   ELSE /\ out' = Append(out, <<"Unchanged:", RelPath(idx)>>)
                        /\ UNCHANGED <<files, changed>>
                /\ idx' = idx + 1
                /\ UNCHANGED <<pc, error, exitCode>>
    /\ UNCHANGED <<env, outDir, mode, api_key, sln, base, newv, packable, packages, calls>>

\* Lines 201, 323-324: the loop is over, the bump stage returns.
BumpEnd ==
    /\ pc = "bump"
    /\ idx > Len(files)
    /\ out' = Append(out, <<"New version set to:", Show(SemVerStr(newv))>>)
    /\ pc' = "build"
    /\ UNCHANGED <<env, files, outDir, mode, api_key, sln, base, newv, changed, idx,
                   packable, packages, calls, error, exitCode>>

\* Lines 229-230, 329: build_solution.
Build ==
    /\ pc = "build"
    /\ \E rc \in 0..MaxExit :
         run(<<"dotnet", "build", sln, "-c", "Release">>, {}, rc, out, "clean")
    /\ UNCHANGED <<env, files, outDir, mode, api_key, sln, base, newv, changed, idx,
                   packable, packages>>

\* Lines 221-226, 332: clean_publish_output_dir.
Clean ==
    /\ pc = "clean"
    /\ outDir' = clean_publish_output_dir(outDir)
    /\ pc' = "pack"
    /\ UNCHANGED <<env, files, mode, api_key, sln, base, newv, changed, idx,
                   packable, packages, calls, out, error, exitCode>>

\* Lines 234-242: the packable manifests.
PackBegin ==
    /\ pc = "pack"
    /\ LET csprojs == find_csproj_files
           pk == SelectSeq(csprojs, LAMBDA p : is_packable_csproj(files[p]))
       IN  IF pk = <<>>
           THEN /\ Raise("NoPackableProjects", <<"No packable projects found">>, out)
                /\ UNCHANGED <<packable, idx>>
           ELSE /\ packable' = pk
                /\ idx' = 1
                /\ out' = out \o << <<"Packable projects:">> >>
                              \o [k \in 1..Len(pk) |-> <<"  -", RelPath(pk[k])>>]
                /\ pc' = "packing"
                /\ UNCHANGED <<error, exitCode>>
    /\ UNCHANGED <<env, files, outDir, mode, api_key, sln, base, newv, changed, packages, calls>>

\* Lines 244-245: dotnet pack of one packable manifest.
PackOne ==
    /\ pc = "packing"
    /\ idx <= Len(packable)
    /\ \E rc \in 0..MaxExit, exts \in PackOutputs :
         /\ run(<<"dotnet", "pack", RelPath(packable[idx]), "-c", "Release", "-o", ARTIFACTS_DIR>>,
                {}, rc, out, "packing")
         /\ IF rc = 0
            THEN /\ outDir' = outDir \cup {[proj |-> packable[idx], ext |-> e] : e \in exts}
                 /\ idx' = idx + 1
            ELSE /\ exts = {}
                 /\ UNCHANGED <<outDir, idx>>
    /\ UNCHANGED <<env, files, mode, api_key, sln, base, newv, changed, packable, packages>>

\* push_packages' order: the .nupkg that are no .symbols.nupkg, then the .snupkg.
PushOrder(produced) ==
    SelectSeq(produced, LAMBDA p : Suffix(p) = ".nupkg" /\ p.ext # "symbols.nupkg")
        \o SelectSeq(produced, LAMBDA p : Suffix(p) = ".snupkg")

\* Lines 247-256: what was produced, and the order it is pushed in.
PackEnd ==
    /\ pc = "packing"
    /\ idx > Len(packable)
    /\ LET produced == SortedPkgs(outDir)
       IN  IF produced = <<>>
           THEN /\ Raise("NoPackagesProduced", <<"No packages produced in", ARTIFACTS_DIR>>, out)
                /\ UNCHANGED <<packages, idx>>
           ELSE /\ packages' = PushOrder(produced)
                /\ idx' = 1
                /\ pc' = "pushing"
                /\ UNCHANGED <<out, error, exitCode>>
    /\ UNCHANGED <<env, files, outDir, mode, api_key, sln, base, newv, changed, packable, calls>>

\* The values run() is told to redact in a push.
PushRedacts == {api_key}

\* Lines 258-274: dotnet nuget push of one package.
PushOne ==
    /\ pc = "pushing"
    /\ idx <= Len(packages)
    /\ \E rc \in 0..MaxExit :
         /\ run(<<"dotnet", "nuget", "push", PkgName(packages[idx]), "--api-key", api_key,
                  "--source", NUGET_SOURCE, "--skip-duplicate">>,
                PushRedacts, rc, Append(out, <<"Pushing:", PkgName(packages[idx])>>), "pushing")
         /\ idx' = IF rc = 0 THEN idx + 1 ELSE idx
    /\ UNCHANGED <<env, files, outDir, mode, api_key, sln, base, newv, changed, packable, packages>>

\* Whether main goes on to the commit stage after the pushes.
Commits == mode # "publish-only"

\* An end of main that commits whatever the mode is.
MutDoneCommits ==
    /\ pc = "pushing"
    /\ idx > Len(packages)
    /\ ~Commits
    /\ calls' = Append(calls, [cmd |-> <<"git", "commit", "-a", "-m", "Analyzer Upgrade">>, rc |-> 0])
    /\ Return(0, Append(out, <<"Done.">>))
    /\ UNCHANGED <<env, files, outDir, mode, api_key, sln, base, newv, changed, idx,
                   packable, packages>>

\* Lines 339-343 for publish-only: nothing more to do.
Done ==
    /\ pc = "pushing"
    /\ idx > Len(packages)
    /\ ~Commits
    /\ Return(0, Append(out, <<"Done.">>))
    /\ UNCHANGED <<env, files, outDir, mode, api_key, sln, base, newv, changed, idx,
                   packable, packages, calls>>

\* A staging of every discovered manifest.
MutStagesAll(changed_files) == [k \in 1..Len(files) |-> RelPath(k)]

\* The paths git add is given.
StagedPaths(changed_files) == [k \in 1..Len(changed_files) |-> RelPath(changed_files[k])]

\* Lines 277-288: git_commit_version_bump up to git add.
GitAdd ==
    /\ pc = "pushing"
    /\ idx > Len(packages)
    /\ Commits
    /\ IF ~gitDir
       THEN /\ Raise("NotAVersionControlledRepo", <<"Expected a git repository">>, out)
            /\ UNCHANGED calls
       ELSE IF changed = <<>>
       THEN /\ Return(0, out \o << <<"No csproj files changed; skipping git commit.">>, <<"Done.">> >>)
            /\ UNCHANGED calls
       ELSE \E rc \in 0..MaxExit :
              run(<<"git", "add", "--">> \o StagedPaths(changed), {}, rc, out, "commit")
    /\ UNCHANGED <<env, files, outDir, mode, api_key, sln, base, newv, changed, idx,
                   packable, packages>>

\* The commit message.
CommitMessage(bump_kind) == "[" \o Upper(bump_kind) \o "] Analyzer Upgrade"

\* Lines 290-291, 342-343: git commit, and the end of main.
GitCommit ==
    /\ pc = "commit"
    /\ \E rc \in 0..MaxExit :
         LET cmd == <<"git", "commit", "-m", CommitMessage(mode)>>
         IN  IF rc = 0
             THEN /\ calls' = Append(calls, [cmd |-> cmd, rc |-> rc])
                  /\ Return(0, out \o <<Echo(cmd, {}), <<"Done.">> >>)
             ELSE run(cmd, {}, rc, out, "exit")
    /\ UNCHANGED <<env, files, outDir, mode, api_key, sln, base, newv, changed, idx,
                   packable, packages>>

Next ==
    \/ Main
    \/ SkipBump
    \/ BumpBegin
    \/ BumpFile
    \/ BumpEnd
    \/ Build
    \/ Clean
    \/ PackBegin
    \/ PackOne
    \/ PackEnd
    \/ PushOne
    \/ Done
    \/ GitAdd
    \/ GitCommit

Spec == Init /\ [][Next]_vars

-----------------------------------------------------------------------------
(* Words for the properties *)

\* The run, by its command line.
ValidRun == Len(argv) = 3 /\ LowerStrip(argv[2]) \in Modes /\ Strip(argv[3]) # ""
RunMode == IF ValidRun THEN LowerStrip(argv[2]) ELSE "none"
BumpRun == RunMode \in {"major", "minor", "patch"}
PublishOnlyRun == RunMode = "publish-only"
Credential == Strip(argv[3])

\* The external invocations, by tool.
IsBuild(c) == c.cmd[1] = "dotnet" /\ c.cmd[2] = "build"
IsPack(c) == c.cmd[1] = "dotnet" /\ c.cmd[2] = "pack"
IsPush(c) == c.cmd[1] = "dotnet" /\ c.cmd[2] = "nuget"
IsGitAdd(c) == c.cmd[1] = "git" /\ c.cmd[2] = "add"
IsGitCommit(c) == c.cmd[1] = "git" /\ c.cmd[2] = "commit"
IsGit(c) == c.cmd[1] = "git"
StageRank(c) ==
    CASE IsBuild(c) -> 1 [] IsPack(c) -> 2 [] IsPush(c) -> 3 [] IsGitAdd(c) -> 4
      [] IsGitCommit(c) -> 5 [] OTHER -> 0
Where(P(_)) == {i \in 1..Len(calls) : P(calls[i])}
LastCall == calls[Len(calls)]
ToolFailed == calls # <<>> /\ LastCall.rc # 0
Range(s) == {s[k] : k \in 1..Len(s)}
Indexes == [i \in 1..Len(files0) |-> i]

\* The manifests with no version declaration when the run starts.
Missing == {i \in 1..Len(files0) : files0[i].versions = <<>>}
FirstOf(S) == CHOOSE i \in S : \A j \in S : i <= j

\* The target version as the specification gives it: the bump of the first
\* declaration of the first manifest, in path order, that has one.
SpecBump(kind, b) ==
    IF kind = "major" THEN <<b[1] + 1, 0, 0>>
    ELSE IF kind = "minor" THEN <<b[1], b[2] + 1, 0>>
    ELSE <<b[1], b[2], b[3] + 1>>
BaseIndex == FirstOf((1..Len(files0)) \ Missing)
Target == SpecBump(RunMode, files0[BaseIndex].versions[1].v)
TargetText == [v |-> Target, pad |-> FALSE]
HoldsTarget(f) == f.versions # <<>> /\ \A k \in 1..Len(f.versions) : f.versions[k] = TargetText

\* The bump stage of a bump-mode run has returned.
BumpCompleted ==
    BumpRun /\ (pc \in {"build", "clean", "pack", "packing", "pushing", "commit"} \/ calls # <<>>)

\* The manifests whose content differs from what the run started on.
ChangedSet == {i \in 1..Len(files) : files[i] # files0[i]}

\* A bump-mode run has come to the commit stage: every push is over.
ReachedCommitStage ==
    BumpRun /\ (Where(IsGit) # {} \/ error = "NotAVersionControlledRepo"
                  \/ (pc = "exit" /\ exitCode = 0))

-----------------------------------------------------------------------------
(* C1 *)

\* C1: no line written to stdout or stderr, the traceback of the re-raised
\* failure included, holds the credential.
C1_CredentialNeverWritten ==
    ValidRun => \A k \in 1..Len(out) : \A j \in 1..Len(out[k]) : out[k][j] # Credential

-----------------------------------------------------------------------------
(* C2 *)

\* C2 as stated: in every run started on a manifest with no version
\* declaration, no external tool is ever invoked.
C2_MissingVersionNoInvocation == Missing # {} => calls = <<>>

\* C2, amended: in every bump-mode run started on a manifest with no version
\* declaration, no external tool is ever invoked and the run does not end
\* with status 0.
C2_BumpMissingVersionFailsFast ==
    (BumpRun /\ Missing # {}) => (calls = <<>> /\ (pc = "exit" => exitCode # 0))

C2_Witness ==
    /\ BumpRun /\ Missing = {2}
    /\ pc = "exit" /\ error = "MissingVersion" /\ calls = <<>>

-----------------------------------------------------------------------------
(* C3 *)

\* C3: in a publish-only run every manifest keeps the content it had at the
\* start and neither git add nor git commit is invoked.
C3_PublishOnlyFrame ==
    PublishOnlyRun => (files = files0 /\ Where(IsGit) = {})

C3_Witness ==
    /\ PublishOnlyRun /\ pc = "exit" /\ exitCode = 0
    /\ Len(files) = 2 /\ Missing # {} /\ Where(IsPush) # {}

-----------------------------------------------------------------------------
(* C4 *)

\* C4: once the bump stage has returned, every manifest has a version
\* declaration, every declaration of every manifest is the target version,
\* and the changed list is the list of the manifests whose content changed.
C4_AllAtTarget ==
    BumpCompleted =>
        /\ files # <<>>
        /\ \A i \in 1..Len(files) : HoldsTarget(files[i])
        /\ newv = Target
        /\ changed = SelectSeq(Indexes, LAMBDA i : i \in ChangedSet)

C4_Witness ==
    /\ RunMode = "minor" /\ BumpCompleted
    /\ Len(files0) = 2 /\ \A i \in 1..2 : files0[i].versions = <<V123>>
    /\ \A i \in 1..2 : files[i].versions = <<[v |-> <<1, 3, 0>>, pad |-> FALSE]>>
    /\ changed = <<1, 2>>

-----------------------------------------------------------------------------
(* C5 *)

\* C5: the invocations come in the order build, pack, push, git add, git
\* commit, with one build, one pack per packable manifest, one push per
\* pushed artifact, one git add and one git commit at most; none comes before
\* the bump stage of a bump-mode run is over; only the last invocation of a
\* run can have failed, and a failure of a tool or of a stage ends the run;
\* git is invoked only in a bump-mode run whose pushes all exited with 0.
C5_FailureAborts ==
    LET packs == SelectSeq(calls, IsPack)
        pushes == SelectSeq(calls, IsPush)
        packableAtStart == SelectSeq(Indexes, LAMBDA i : is_packable_csproj(files0[i]))
        toPush == PushOrder(SortedPkgs(outDir))
    IN  /\ \A i \in 1..(Len(calls) - 1) :
              /\ StageRank(calls[i]) <= StageRank(calls[i + 1])
              /\ calls[i].rc = 0
        /\ \A i \in 1..Len(calls) : StageRank(calls[i]) > 0
        /\ Cardinality(Where(IsBuild)) <= 1
        /\ Cardinality(Where(IsGitAdd)) <= 1
        /\ Cardinality(Where(IsGitCommit)) <= 1
        /\ Len(packs) <= Len(packableAtStart)
        /\ \A k \in 1..Len(packs) : packs[k].cmd[3] = RelPath(packableAtStart[k])
        /\ \A i, j \in 1..Len(pushes) : i # j => pushes[i].cmd[4] # pushes[j].cmd[4]
        /\ \A i \in 1..Len(pushes) : \E p \in outDir : pushes[i].cmd[4] = PkgName(p)
        /\ (BumpRun /\ calls # <<>>) => pc \notin {"main", "stage1", "bump"}
        /\ ToolFailed => pc = "exit"
        /\ error # "" => pc = "exit"
        /\ pc = "exit" => ~ENABLED Next
        /\ Where(IsGit) # {} =>
              /\ BumpRun
              /\ \A i \in 1..Len(pushes) : pushes[i].rc = 0
              /\ Len(pushes) = Len(toPush)
              /\ \A k \in 1..Len(pushes) : pushes[k].cmd[4] = PkgName(toPush[k])

C5_Witness ==
    /\ pc = "exit" /\ ToolFailed /\ IsPush(LastCall)
    /\ Cardinality(Where(IsPush)) = 2 /\ Cardinality(Where(IsPack)) = 2
    /\ BumpRun /\ gitDir

-----------------------------------------------------------------------------
(* C6 *)

\* C6 as stated: when an invoked tool exits with c # 0 the process ends with
\* exit status c.
C6_ExitStatusPropagated ==
    (pc = "exit" /\ ToolFailed) => exitCode = LastCall.rc

\* C6, amended: when an invoked tool exits with c # 0 the run ends there,
\* its last two lines are the report of c and the traceback of the re-raised
\* exception, and the process ends with exit status 1.
C6_ExitStatusOne ==
    ToolFailed =>
        /\ pc = "exit"
        /\ exitCode = 1
        /\ Len(out) >= 2
        /\ out[Len(out) - 1] = <<"Command failed with exit code", ToString(LastCall.rc)>>
        /\ out[Len(out)][1] = "Traceback"

C6_Witness ==
    /\ pc = "exit" /\ ToolFailed /\ LastCall.rc = 2 /\ exitCode = 1
    /\ IsPack(LastCall)

-----------------------------------------------------------------------------
(* C7 *)

\* C7 as stated: a file left in the output directory by a prior run is gone
\* before the first external invocation of the run.
C7_ClearedBeforeFirstInvocation ==
    calls # <<>> => outDir \cap outDir0 = {}

\* C7, amended: a file left in the output directory by a prior run is gone
\* before the first pack invocation of the run: it is there at no pack and at
\* no push, and it is never pushed.
C7_ClearedBeforeFirstPack ==
    /\ (pc \in {"pack", "packing", "pushing", "commit"} \/ Where(IsPack) # {} \/ Where(IsPush) # {})
          => outDir \cap outDir0 = {}
    /\ \A i \in Where(IsPush) : \A p \in outDir0 : calls[i].cmd[4] # PkgName(p)

C7_Witness ==
    /\ outDir0 = {StalePkg} /\ Where(IsPush) # {} /\ StalePkg \notin outDir /\ outDir # {}

-----------------------------------------------------------------------------
(* C8 *)

ExpectedMessage ==
    CASE RunMode = "major" -> "[MAJOR] Analyzer Upgrade"
      [] RunMode = "minor" -> "[MINOR] Analyzer Upgrade"
      [] RunMode = "patch" -> "[PATCH] Analyzer Upgrade"
      [] OTHER -> ""

\* The one git add of the run stages the changed manifests and nothing else.
StagesExactlyChanged ==
    /\ Cardinality(Where(IsGitAdd)) = 1
    /\ \A i \in Where(IsGitAdd) :
          /\ calls[i].cmd[3] = "--"
          /\ {calls[i].cmd[k] : k \in 4..Len(calls[i].cmd)} = {RelPath(m) : m \in ChangedSet}
          /\ Len(calls[i].cmd) = 3 + Cardinality(ChangedSet)

\* The one git commit of the run follows the git add and has the message.
CommitsOnce ==
    /\ Cardinality(Where(IsGitCommit)) = 1
    /\ \A i \in Where(IsGitCommit) :
          /\ calls[i].cmd = <<"git", "commit", "-m", ExpectedMessage>>
          /\ \A j \in Where(IsGitAdd) : j < i

\* C8 as stated: a bump-mode run that came to the commit stage with .git
\* present has staged exactly the changed manifests and made one commit with
\* the message of the bump kind.
C8_StagesChangedAndCommits ==
    (pc = "exit" /\ ReachedCommitStage /\ gitDir) => (StagesExactlyChanged /\ CommitsOnce)

\* C8, amended: such a run has staged exactly the changed manifests; when git
\* add exited with 0 it has made one commit, after it, with the message of
\* the bump kind, and when git add failed it has made none.
C8_StagesChangedThenCommits ==
    (pc = "exit" /\ ReachedCommitStage /\ gitDir) =>
        /\ StagesExactlyChanged
        /\ \A i \in Where(IsGitAdd) :
              IF calls[i].rc = 0 THEN CommitsOnce ELSE Where(IsGitCommit) = {}

C8_Witness ==
    /\ pc = "exit" /\ exitCode = 0 /\ RunMode = "patch" /\ gitDir
    /\ Len(files) = 2 /\ ChangedSet = {1}
    /\ \E i \in Where(IsGitAdd) : calls[i].cmd = <<"git", "add", "--", RelPath(1)>>
    /\ LastCall.cmd = <<"git", "commit", "-m", "[PATCH] Analyzer Upgrade">>

-----------------------------------------------------------------------------
(* C9 *)

\* C9: when the bump stage fails with MissingVersion, at the first manifest
\* that has no version declaration, every manifest before it holds the
\* target version in all its declarations and nothing else of it has
\* changed, that manifest and the ones after it are as they were, and the
\* run is over.
C9_NoRollback ==
    error = "MissingVersion" =>
        /\ pc = "exit"
        /\ Missing # {}
        /\ \A j \in 1..Len(files) :
              IF j < FirstOf(Missing)
              THEN /\ HoldsTarget(files[j])
                   /\ Len(files[j].versions) = Len(files0[j].versions)
                   /\ files[j].packageId = files0[j].packageId
                   /\ files[j].isPackable = files0[j].isPackable
                   /\ (files0[j] # files[j] <=> j \in Range(changed))
              ELSE files[j] = files0[j]

C9_Witness ==
    /\ error = "MissingVersion" /\ pc = "exit" /\ FirstOf(Missing) = 2
    /\ files0[1].versions = <<V0124, V123>> /\ files[1] # files0[1] /\ files[2] = files0[2]

-----------------------------------------------------------------------------
(* C10 *)

SkippedCommit == \E k \in 1..Len(out) : out[k] = <<"No csproj files changed; skipping git commit.">>

\* C10 as stated: the changed list of a completed bump stage holds the
\* manifest the base version came from, the commit stage never skips, and a
\* bump-mode run whose pushes all succeeded, with .git present, has invoked
\* git add and git commit.
C10_AlwaysAddsAndCommits ==
    /\ BumpCompleted => (changed # <<>> /\ BaseIndex \in Range(changed))
    /\ ~SkippedCommit
    /\ (pc = "exit" /\ ReachedCommitStage /\ gitDir) =>
          (Where(IsGitAdd) # {} /\ Where(IsGitCommit) # {})

\* C10, amended: the same, but git commit is invoked if and only if git add
\* exited with 0.
C10_AlwaysAdds ==
    /\ BumpCompleted => (changed # <<>> /\ BaseIndex \in Range(changed))
    /\ ~SkippedCommit
    /\ (pc = "exit" /\ ReachedCommitStage /\ gitDir) =>
          /\ Where(IsGitAdd) # {}
          /\ Where(IsGitCommit) # {} <=> (\A i \in Where(IsGitAdd) : calls[i].rc = 0)

C10_Witness ==
    /\ pc = "exit" /\ ReachedCommitStage /\ gitDir /\ RunMode = "patch"
    /\ files0[1].versions = <<V123>> /\ Len(files0) = 2 /\ files0[2].versions = <<V124>>
    /\ changed = <<1>> /\ Where(IsGitCommit) # {}

====
